---- MODULE Spec2Model ----
(***************************************************************************)
(* Model of my_model_selectors.py: the four model-selection strategies     *)
(* (SelectorConstant, SelectorBIC, SelectorDIC, SelectorCV) that choose    *)
(* the number of hidden states of a GaussianHMM for one vocabulary item.   *)
(*                                                                         *)
(* GaussianHMM.fit, GaussianHMM.score, KFold and combine_sequences are     *)
(* library code.  A fit either yields a model or fails, a score either     *)
(* yields a log-likelihood or raises: both outcomes are drawn with \E.     *)
(* Log-likelihoods are finite and counted in thousandths; a piece of       *)
(* training data is represented by the tuple of the indices (1-based) of   *)
(* the item's sequences it concatenates.                                   *)
(***************************************************************************)
EXTENDS Integers, Sequences, FiniteSets, TLC

\* ------------------------------------------------------------------ bounds
MaxSeq == 4      \* most sequences of the target item
MaxN == 3        \* largest state count / n_constant / range bound drawn
MaxWords == 2    \* most vocabulary items in the corpus

\* ------------------------------------------------------------ input domains
Strategies == {"Constant", "BIC", "DIC", "CV"}
\* KFold() is built without arguments: n_splits is the library's default,
\* which is 3 up to scikit-learn 0.21 and 5 from 0.22 on.
KFoldDefaults == {3, 5}
\* values score() may return, in thousandths
LogLs == {-4000, 0}
\* hmm_model.n_features: the dimensionality of the observations
Features == {1, 2}

\* ------------------------------------------------------------------ floats
\* A float is +inf, -inf or a finite rational num/den (den > 0).
Fin(x) == [inf |-> 0, num |-> x, den |-> 1]
PosInf == [inf |-> 1, num |-> 0, den |-> 1]
NegInf == [inf |-> -1, num |-> 0, den |-> 1]
Lt(a, b) ==
    IF a.inf # b.inf THEN a.inf < b.inf
    ELSE IF a.inf # 0 THEN FALSE
    ELSE a.num * b.den < b.num * a.den
Gt(a, b) == Lt(b, a)
FEq(a, b) == ~Lt(a, b) /\ ~Lt(b, a)

\* np.log(k) for k = 1..8, in thousandths (rounded)
LnTable == <<0, 693, 1099, 1386, 1609, 1792, 1946, 2079>>
np_log(k) == LnTable[k]

RECURSIVE SumSeq(_)
SumSeq(s) == IF s = <<>> THEN 0 ELSE Head(s) + SumSeq(Tail(s))

\* np.mean(scores)
np_mean(s) == [inf |-> 0, num |-> SumSeq(s), den |-> Len(s)]

\* ------------------------------------------------------------------- state
VARIABLES
    strategy,            \* which subclass of ModelSelector this instance is
    words,               \* self.words.keys(): the vocabulary items, 1..M
    sequences,           \* self.sequences: indices of the item's sequences
    n_features,          \* dimensionality of the observations
    n_constant,          \* self.n_constant
    min_n_components,    \* self.min_n_components
    max_n_components,    \* self.max_n_components
    n_splits,            \* kf.n_splits
    X,                   \* self.X, self.lengths: the data base_model fits on
    pc,                  \* "init", "loop", "fold", "returned", "raised"
    n,                   \* the loop variable of select()
    best_model,          \* the local tuple (model, score)
    fold,                \* CV: the number of the fold to run next
    scores,              \* CV: the local list scores
    hmm_model,           \* CV: the local hmm_model
    evals,               \* log: one entry per evaluated n
    fitLog,              \* log: one entry per call of GaussianHMM.fit
    scoreLog,            \* log: one entry per call of score on this item
    result               \* what select() returned

vars == <<strategy, words, sequences, n_features, n_constant,
          min_n_components, max_n_components, n_splits, X, pc, n,
          best_model, fold, scores, hmm_model, evals, fitLog, scoreLog,
          result>>

config == <<strategy, words, sequences, n_features, n_constant,
            min_n_components, max_n_components, n_splits>>

this_word == 1

\* the fitted model: the state count and the data it was fitted on
None == [n_components |-> 0, fit_X |-> <<>>]
GaussianHMM(num_states, data) == [n_components |-> num_states, fit_X |-> data]

\* the outcome of one call of score(): a value, or an exception
ScoreOutcomes == [ok : {TRUE}, v : LogLs] \cup {[ok |-> FALSE, v |-> 0]}

Indices(k) == [i \in 1..k |-> i]

\* ModelSelector.__init__.  A strategy reads only part of the configuration
\* (n_constant: Constant; n_features: BIC; the other items: DIC; n_splits:
\* CV); a part the strategy never reads is held at one value.
Init ==
    /\ strategy \in Strategies
    /\ \E m \in 1..(IF strategy = "DIC" THEN MaxWords ELSE 1) : words = 1..m
    /\ \E k \in 1..MaxSeq : sequences = Indices(k)
    /\ n_features \in (IF strategy = "BIC" THEN Features ELSE {1})
    /\ n_constant \in (IF strategy = "Constant" THEN 1..MaxN ELSE {1})
    /\ min_n_components \in 1..MaxN
    /\ max_n_components \in 1..MaxN
    /\ n_splits \in (IF strategy = "CV" THEN KFoldDefaults ELSE {3})
    /\ X = sequences
    /\ pc = "init"
    /\ n = 0
    /\ best_model = <<None, Fin(0)>>
    /\ fold = 0
    /\ scores = <<>>
    /\ hmm_model = None
    /\ evals = <<>>
    /\ fitLog = <<>>
    /\ scoreLog = <<>>
    /\ result = None

\* ModelSelector.base_model: the fitted model, or None when the fit fails
base_model(num_states, data, fitOK) ==
    IF fitOK THEN GaussianHMM(num_states, data) ELSE None

FitEntry(num_states, data, fitOK) ==
    [n |-> num_states, X |-> data, ok |-> fitOK]
ScoreEntry(model, data, sc) ==
    [n |-> model.n_components, fit_X |-> model.fit_X, X |-> data, ok |-> sc.ok]
\* raw: the locals the score was computed from: <<logL>> in BIC, <<logL,
\* log_sum>> in DIC, <<score>> in CV without folds; with folds they are the
\* list scores, which stays bound until the next iteration empties it.
\* others: DIC, the values score() returned for the items other than the
\* target
EvalEntry(k, exc, model, score, raw) ==
    [n |-> k, exc |-> exc, model |-> model, score |-> score, raw |-> raw,
     others |-> <<>>]

CaughtMut(exc) == exc # "AttributeError"

\* the bare "except: pass" of the three searching selectors
Caught(exc) == TRUE

\* SelectorConstant.select
ConstantSelect ==
    /\ pc = "init"
    /\ strategy = "Constant"
    /\ \E fitOK \in BOOLEAN :
        /\ result' = base_model(n_constant, X, fitOK)
        /\ fitLog' = Append(fitLog, FitEntry(n_constant, X, fitOK))
    /\ pc' = "returned"
    /\ UNCHANGED <<config, X, n, best_model, fold, scores, hmm_model, evals,
                   scoreLog>>

\* the initial running best
BICInitBest == <<None, PosInf>>
DICInitBest == <<None, NegInf>>
CVInitBest == <<None, NegInf>>

RangeStartMut(min_n) == min_n - 1

\* start of range(self.min_n_components, ...)
RangeStart(min_n) == min_n

\* entry of select() of the searching selectors: best_model and range(...)
EnterSelect ==
    /\ pc = "init"
    /\ strategy # "Constant"
    /\ best_model' = CASE strategy = "BIC" -> BICInitBest
                       [] strategy = "DIC" -> DICInitBest
                       [] OTHER -> CVInitBest
    /\ n' = RangeStart(min_n_components)
    /\ pc' = "loop"
    /\ UNCHANGED <<config, X, fold, scores, hmm_model, evals, fitLog,
                   scoreLog, result>>

\* stop of range(min_n_components, stop)
BICRangeStop(max_n) == max_n
DICRangeStop(max_n) == max_n
CVRangeStopMut(max_n) == max_n

CVRangeStop(max_n) == max_n + 1

RangeStop ==
    CASE strategy = "BIC" -> BICRangeStop(max_n_components)
      [] strategy = "DIC" -> DICRangeStop(max_n_components)
      [] OTHER -> CVRangeStop(max_n_components)

AfterTryMut(exc) == IF exc = "none" THEN "loop" ELSE "returned"

\* after the try statement of iteration k: the next iteration, or the
\* exception leaves select()
AfterTry(exc) == IF exc = "none" \/ Caught(exc) THEN "loop" ELSE "raised"

\* BIC = -2 * logL + p * logN, p = n ** 2 + 2 * n * n_features - 1
BICScore(logL, k, nf, nseq) ==
    Fin(-2 * logL + (k * k + 2 * k * nf - 1) * np_log(nseq))

BICUpdateMut(best, model, score) ==
    IF Lt(best[2], score) THEN best ELSE <<model, score>>

\* if best_model[1] > score: best_model = (hmm_model, score)
BICUpdate(best, model, score) ==
    IF Gt(best[2], score) THEN <<model, score>> ELSE best

\* one iteration of the loop of SelectorBIC.select
BICIter ==
    /\ pc = "loop"
    /\ strategy = "BIC"
    /\ n < RangeStop
    /\ \E fitOK \in BOOLEAN, sc \in ScoreOutcomes :
        LET model == base_model(n, X, fitOK)
            exc == IF model = None THEN "AttributeError"
                   ELSE IF ~sc.ok THEN "ScoreError"
                   ELSE "none"
            score == BICScore(sc.v, n, n_features, Len(X))
        IN  /\ fitLog' = Append(fitLog, FitEntry(n, X, fitOK))
            /\ scoreLog' = IF model = None THEN scoreLog
                           ELSE Append(scoreLog, ScoreEntry(model, X, sc))
            /\ best_model' = IF exc = "none"
                             THEN BICUpdate(best_model, model, score)
                             ELSE best_model
            /\ evals' = Append(evals, IF exc = "none"
                                      THEN EvalEntry(n, exc, model, score, <<sc.v>>)
                                      ELSE EvalEntry(n, exc, None, Fin(0), <<>>))
            /\ pc' = AfterTry(exc)
    /\ n' = n + 1
    /\ UNCHANGED <<config, X, fold, scores, hmm_model, result>>

DICScoreMut(logL, log_sum, M) ==
    [inf |-> 0, num |-> (M - 1) * logL - log_sum, den |-> M - 1]

\* DIC = logL - (1 / (M - 1)) * (log_sum - logL), for M >= 2
DICScore(logL, log_sum, M) ==
    [inf |-> 0, num |-> (M - 1) * logL - (log_sum - logL), den |-> M - 1]

\* if best_model[1] < score: best_model = (hmm_model, score)
DICUpdate(best, model, score) ==
    IF Lt(best[2], score) THEN <<model, score>> ELSE best

RECURSIVE SumOver(_, _)
SumOver(f, S) ==
    IF S = {} THEN 0
    ELSE LET w == CHOOSE x \in S : TRUE IN f[w].v + SumOver(f, S \ {w})

\* one iteration of the loop of SelectorDIC.select.  self.hwords[this_word]
\* is (self.X, self.lengths), so the term of the sum for the target item is
\* the value of logL; the other items' scores are drawn in `others'.
DICIter ==
    /\ pc = "loop"
    /\ strategy = "DIC"
    /\ n < RangeStop
    /\ \E fitOK \in BOOLEAN, sc \in ScoreOutcomes,
          others \in [words \ {this_word} -> ScoreOutcomes] :
        LET model == base_model(n, X, fitOK)
            M == Cardinality(words)
            all == [w \in words |-> IF w = this_word THEN sc ELSE others[w]]
            exc == IF model = None THEN "AttributeError"
                   ELSE IF \E w \in words : ~all[w].ok THEN "ScoreError"
                   ELSE IF M - 1 = 0 THEN "ZeroDivisionError"
                   ELSE "none"
            score == DICScore(sc.v, SumOver(all, words), M)
        IN  /\ fitLog' = Append(fitLog, FitEntry(n, X, fitOK))
            /\ scoreLog' = IF model = None THEN scoreLog
                           ELSE Append(scoreLog, ScoreEntry(model, X, sc))
            /\ best_model' = IF exc = "none"
                             THEN DICUpdate(best_model, model, score)
                             ELSE best_model
            /\ evals' = Append(evals, IF exc = "none"
                                      THEN [EvalEntry(n, exc, model, score,
                                                      <<sc.v, SumOver(all, words)>>)
                                            EXCEPT !.others = others]
                                      ELSE EvalEntry(n, exc, None, Fin(0), <<>>))
            /\ pc' = AfterTry(exc)
    /\ n' = n + 1
    /\ UNCHANGED <<config, X, fold, scores, hmm_model, result>>

PyMaxMut(a, b) == IF Lt(b[2], a[2]) THEN a ELSE b

\* max(best_model, curr, key=lambda x: x[1]): the first of the largest
PyMax(a, b) == IF Gt(b[2], a[2]) THEN b ELSE a

\* KFold(n_splits=k).split of ns samples, without shuffling: the first
\* ns % k folds hold ns // k + 1 consecutive samples, the others ns // k.
\* Position i here is Python's index i - 1.
FoldSize(ns, k, i) == (ns \div k) + (IF i <= ns % k THEN 1 ELSE 0)
FoldStart(ns, k, i) ==
    1 + (i - 1) * (ns \div k) + (IF i - 1 <= ns % k THEN i - 1 ELSE ns % k)
KFoldTest(ns, k, i) ==
    [j \in 1..FoldSize(ns, k, i) |-> FoldStart(ns, k, i) + j - 1]
KFoldTrain(ns, k, i) ==
    LET InTest(x) == /\ FoldStart(ns, k, i) <= x
                     /\ x < FoldStart(ns, k, i) + FoldSize(ns, k, i)
        Out(x) == ~InTest(x)
    IN  SelectSeq(Indices(ns), Out)
\* split raises ValueError when n_splits exceeds the number of samples
KFoldSplitRaises(ns, k) == k > ns

\* asl_utils.combine_sequences: the concatenation of the chosen sequences
combine_sequences(split_index_list, seqs) ==
    [j \in 1..Len(split_index_list) |-> seqs[split_index_list[j]]]

RebindXMut(i_train, seqs) == seqs

\* self.X, self.lengths = combine_sequences(i_train, self.sequences)
RebindX(i_train, seqs) == combine_sequences(i_train, seqs)

UseFoldsMut(seqs) == Len(seqs) >= 2

\* the branch of the try body: folds for more than 2 sequences
UseFolds(seqs) == Len(seqs) > 2

\* curr of the else branch: (hmm_model, score)
CVFallbackCurr(model, score) == <<model, Fin(score)>>

\* SelectorCV.select, an iteration for an item with at most 2 sequences
CVFallback ==
    /\ pc = "loop"
    /\ strategy = "CV"
    /\ n < RangeStop
    /\ ~UseFolds(sequences)
    /\ \E fitOK \in BOOLEAN, sc \in ScoreOutcomes :
        LET model == base_model(n, X, fitOK)
            exc == IF model = None THEN "AttributeError"
                   ELSE IF ~sc.ok THEN "ScoreError"
                   ELSE "none"
            curr == CVFallbackCurr(model, sc.v)
        IN  /\ fitLog' = Append(fitLog, FitEntry(n, X, fitOK))
            /\ scoreLog' = IF model = None THEN scoreLog
                           ELSE Append(scoreLog, ScoreEntry(model, X, sc))
            /\ hmm_model' = model
            /\ best_model' = IF exc = "none" THEN PyMax(best_model, curr)
                             ELSE best_model
            /\ evals' = Append(evals, IF exc = "none"
                                      THEN EvalEntry(n, exc, curr[1], curr[2],
                                                     <<sc.v>>)
                                      ELSE EvalEntry(n, exc, None, Fin(0),
                                                     <<>>))
            /\ pc' = AfterTry(exc)
    /\ n' = n + 1
    /\ UNCHANGED <<config, X, fold, scores, result>>

\* SelectorCV.select, an iteration for an item with more than 2 sequences:
\* scores = [] and the start of the loop over kf.split(self.sequences)
CVSplit ==
    /\ pc = "loop"
    /\ strategy = "CV"
    /\ n < RangeStop
    /\ UseFolds(sequences)
    /\ scores' = <<>>
    /\ IF KFoldSplitRaises(Len(sequences), n_splits)
       THEN /\ evals' = Append(evals, EvalEntry(n, "ValueError", None, Fin(0),
                                                <<>>))
            /\ pc' = AfterTry("ValueError")
            /\ n' = n + 1
            /\ fold' = fold
       ELSE /\ pc' = "fold"
            /\ fold' = 1
            /\ UNCHANGED <<evals, n>>
    /\ UNCHANGED <<config, X, best_model, hmm_model, fitLog, scoreLog, result>>

\* the body of the loop over the folds
CVFold ==
    /\ pc = "fold"
    /\ fold <= n_splits
    /\ \E fitOK \in BOOLEAN, sc \in ScoreOutcomes :
        LET i_train == KFoldTrain(Len(sequences), n_splits, fold)
            i_test == KFoldTest(Len(sequences), n_splits, fold)
            X_train == RebindX(i_train, sequences)
            X_test == combine_sequences(i_test, sequences)
            model == base_model(n, X_train, fitOK)
            exc == IF model = None THEN "AttributeError"
                   ELSE IF ~sc.ok THEN "ScoreError"
                   ELSE "none"
        IN  /\ X' = X_train
            /\ hmm_model' = model
            /\ fitLog' = Append(fitLog, FitEntry(n, X_train, fitOK))
            /\ scoreLog' = IF model = None THEN scoreLog
                           ELSE Append(scoreLog, ScoreEntry(model, X_test, sc))
            /\ IF exc = "none"
               THEN /\ scores' = Append(scores, sc.v)
                    /\ fold' = fold + 1
                    /\ UNCHANGED <<evals, n, pc>>
               ELSE /\ evals' = Append(evals, EvalEntry(n, exc, None, Fin(0),
                                                          <<>>))
                    /\ pc' = AfterTry(exc)
                    /\ n' = n + 1
                    /\ UNCHANGED <<scores, fold>>
    /\ UNCHANGED <<config, best_model, result>>

\* curr = (hmm_model, np.mean(scores)): the model left by the last fold
CVFoldCurr(model, scs) == <<model, np_mean(scs)>>

\* after the last fold: curr and the running best
CVMean ==
    /\ pc = "fold"
    /\ fold > n_splits
    /\ LET curr == CVFoldCurr(hmm_model, scores)
       IN  /\ best_model' = PyMax(best_model, curr)
           /\ evals' = Append(evals, EvalEntry(n, "none", curr[1], curr[2],
                                               <<>>))
    /\ pc' = "loop"
    /\ n' = n + 1
    /\ UNCHANGED <<config, X, fold, scores, hmm_model, fitLog, scoreLog,
                   result>>

\* return best_model[0]
Return ==
    /\ pc = "loop"
    /\ ~(n < RangeStop)
    /\ result' = best_model[1]
    /\ pc' = "returned"
    /\ UNCHANGED <<config, X, n, best_model, fold, scores, hmm_model, evals,
                   fitLog, scoreLog>>

Next ==
    \/ ConstantSelect
    \/ EnterSelect
    \/ BICIter
    \/ DICIter
    \/ CVFallback
    \/ CVSplit
    \/ CVFold
    \/ CVMean
    \/ Return

Spec == Init /\ [][Next]_vars

\* ------------------------------------------------------------------ claims
Returned == pc = "returned"
Terminated == pc \in {"returned", "raised"}
Searching == strategy \in {"BIC", "DIC", "CV"}
NsOf(log) == [i \in 1..Len(log) |-> log[i].n]
FitNs == {fitLog[i].n : i \in 1..Len(fitLog)}
NonDecreasing(s) == \A i, j \in 1..Len(s) : i < j => s[i] <= s[j]
\* the search range the specification gives each strategy
ClaimedLast == IF strategy = "CV" THEN max_n_components
               ELSE max_n_components - 1
ClaimedRange == min_n_components..ClaimedLast
ClaimedRangeSeq ==
    [i \in 1..(ClaimedLast - min_n_components + 1) |-> min_n_components + i - 1]
\* the evaluated candidates whose fit and every scoring succeeded
Scored == {i \in 1..Len(evals) :
             evals[i].exc \notin {"AttributeError", "ScoreError", "ValueError"}}
FitsOf(k) == LET Is(e) == e.n = k IN SelectSeq(fitLog, Is)
ScoresOf(k) == LET Is(e) == e.n = k IN SelectSeq(scoreLog, Is)
TrainOf(f) ==
    combine_sequences(KFoldTrain(Len(sequences), n_splits, f), sequences)
TestOf(f) ==
    combine_sequences(KFoldTest(Len(sequences), n_splits, f), sequences)
SplitFails == Len(sequences) > 2 /\ n_splits > Len(sequences)

\* C1 as stated: for min_n <= max_n, one select() attempts a fit for exactly
\* the state counts of [min_n, max_n) in BIC and DIC and of [min_n, max_n] in
\* CV, in increasing order, whether or not candidates fail.
C1_Original ==
    (Returned /\ Searching /\ min_n_components <= max_n_components) =>
        /\ FitNs = ClaimedRange
        /\ NonDecreasing(NsOf(fitLog))

\* C1 amended: the loop visits exactly the state counts of the range, once
\* each and in increasing order; BIC, DIC and CV without folds attempt
\* exactly one fit for each, CV with folds at least one fit for each,
\* except that CV attempts no fit at all when fold splitting raises.
C1_Amended ==
    (Returned /\ Searching /\ min_n_components <= max_n_components) =>
        /\ NsOf(evals) = ClaimedRangeSeq
        /\ NonDecreasing(NsOf(fitLog))
        /\ FitNs = IF strategy = "CV" /\ SplitFails THEN {} ELSE ClaimedRange
        /\ (strategy # "CV" \/ Len(sequences) <= 2) =>
              NsOf(fitLog) = ClaimedRangeSeq

C1_Witness ==
    /\ Returned /\ strategy = "CV"
    /\ min_n_components = 1 /\ max_n_components = 3
    /\ Len(sequences) = 3 /\ n_splits = 3
    /\ FitNs = {1, 2, 3}
    /\ \E i \in 1..Len(fitLog) : ~fitLog[i].ok

\* C2 as stated: each of the four strategies returns None or a model whose
\* state count lies in [min_n_components, max_n_components].  Stated for the
\* configurations whose range is not empty.
C2_Original ==
    (Returned /\ min_n_components <= max_n_components) =>
        \/ result = None
        \/ result.n_components \in min_n_components..max_n_components

\* C2 amended: BIC, DIC and CV return None or a model whose state count lies
\* in [min_n_components, max_n_components]; Constant returns None or a model
\* with exactly n_constant states, whatever the range.
C2_Amended ==
    Returned =>
        \/ result = None
        \/ /\ strategy = "Constant"
           /\ result.n_components = n_constant
        \/ /\ Searching
           /\ result.n_components \in min_n_components..max_n_components

C2_Witness ==
    /\ Returned /\ strategy = "CV"
    /\ min_n_components < max_n_components
    /\ result # None
    /\ result.n_components = max_n_components

\* C3: when every fit attempted fails, select() returns None and raises
\* nothing, in each of the four strategies.
C3_AllFitsFail ==
    (Terminated /\ \A i \in 1..Len(fitLog) : ~fitLog[i].ok) =>
        (Returned /\ result = None)

C3_Witness ==
    /\ Returned /\ strategy = "CV"
    /\ Len(sequences) > 2
    /\ Len(fitLog) >= 3
    /\ \A i \in 1..Len(fitLog) : ~fitLog[i].ok
    /\ result = None

\* BIC as the claim writes it, from the logged logL of evaluation i
ClaimBIC(i) ==
    -2 * evals[i].raw[1]
    + (evals[i].n * evals[i].n + 2 * evals[i].n * n_features - 1)
      * np_log(Len(sequences))

\* C4: SelectorBIC returns the candidate of least BIC = -2*logL +
\* p*log(numSequences), p = n^2 + 2*n*numFeatures - 1, among those that fit
\* and scored; of two with the same BIC the one of lower n; None if none.
C4_BICMin ==
    (Returned /\ strategy = "BIC") =>
        IF Scored = {} THEN result = None
        ELSE \E i \in Scored :
                /\ result = evals[i].model
                /\ result.n_components = evals[i].n
                /\ \A j \in Scored :
                    /\ ClaimBIC(j) >= ClaimBIC(i)
                    /\ ClaimBIC(j) = ClaimBIC(i) => evals[j].n >= evals[i].n

C4_Witness ==
    /\ Returned /\ strategy = "BIC"
    /\ \E i, j \in Scored :
        /\ evals[i].n < evals[j].n
        /\ ClaimBIC(i) = ClaimBIC(j)
        /\ result.n_components = evals[i].n

C6_Claim ==
    (/\ strategy = "DIC" /\ Cardinality(words) = 1 /\ Terminated
     /\ \E i \in 1..Len(scoreLog) : scoreLog[i].ok) =>
        pc = "raised"

ClaimDIC(i) ==
    LET M == Cardinality(words)
        logL == evals[i].raw[1]
        sumOverAll == logL + SumOver(evals[i].others, DOMAIN evals[i].others)
    IN  (M - 1) * logL - (sumOverAll - logL)

\* C8: for M >= 2 SelectorDIC returns the candidate of largest DIC = logL -
\* (1/(M-1))*(sumOverAll - logL) among those whose fit and every per-item
\* scoring succeeded; a candidate with a failed scoring is never returned,
\* and of two with the same DIC the one of lower n is kept.
C8_DICMax ==
    (Returned /\ strategy = "DIC" /\ Cardinality(words) >= 2) =>
        IF Scored = {} THEN result = None
        ELSE \E i \in Scored :
                /\ result = evals[i].model
                /\ result.n_components = evals[i].n
                /\ \A j \in Scored :
                    /\ ClaimDIC(j) <= ClaimDIC(i)
                    /\ ClaimDIC(j) = ClaimDIC(i) => evals[j].n >= evals[i].n

C8_Witness ==
    /\ Returned /\ strategy = "DIC"
    /\ Cardinality(words) = 2
    /\ \E i, j \in Scored :
        /\ evals[i].n < evals[j].n
        /\ ClaimDIC(i) = ClaimDIC(j)
        /\ evals[i].raw[1] # evals[j].raw[1]
        /\ result.n_components = evals[i].n

\* the search of the strategy over a list of evaluated candidates
StrategyUpdate(best, model, score) ==
    CASE strategy = "BIC" -> BICUpdate(best, model, score)
      [] strategy = "DIC" -> DICUpdate(best, model, score)
      [] OTHER -> PyMax(best, <<model, score>>)
StrategyInitBest ==
    CASE strategy = "BIC" -> BICInitBest
      [] strategy = "DIC" -> DICInitBest
      [] OTHER -> CVInitBest
RECURSIVE SearchOver(_, _)
SearchOver(es, best) ==
    IF es = <<>> THEN best
    ELSE SearchOver(Tail(es),
                    StrategyUpdate(best, Head(es).model, Head(es).score))
Succeeded(e) == e.exc = "none"

C9_State ==
    Searching =>
        /\ pc # "raised"
        /\ Returned =>
            /\ NsOf(evals) = ClaimedRangeSeq
            /\ result = SearchOver(SelectSeq(evals, Succeeded),
                                   StrategyInitBest)[1]
C9_Step ==
    (/\ Searching
     /\ Len(evals') = Len(evals) + 1
     /\ evals'[Len(evals')].exc # "none") =>
        /\ best_model' = best_model
        /\ n' = n + 1
        /\ pc' = "loop"

\* C9: in BIC, DIC and CV a failure while evaluating n never leaves
\* select(), leaves the running best unchanged and does not stop the
\* search: every state count of the range is evaluated, and the result is
\* that of the same search over the candidates that did not fail.
C9_FailureSkipped == [](C9_State) /\ [][C9_Step]_vars

C9_Witness ==
    /\ Returned /\ strategy = "CV"
    /\ Len(sequences) > 2
    /\ Len(evals) = 3
    /\ evals[1].exc = "none"
    /\ evals[2].exc = "ScoreError"
    /\ evals[3].exc = "none"
    /\ result = evals[3].model

\* C10: with folds, SelectorCV returns the model fitted in the last fold
\* of the winning n, trained on that fold's train indices only: not the
\* model of an earlier fold or of another n, nor one fitted on all the data.
C10_LastFoldModel ==
    (Returned /\ strategy = "CV" /\ Len(sequences) > 2 /\ result # None) =>
        \E i \in Scored :
            /\ \A j \in Scored :
                /\ ~Gt(evals[j].score, evals[i].score)
                /\ FEq(evals[j].score, evals[i].score) => j >= i
            /\ result.n_components = evals[i].n
            /\ result.fit_X = TrainOf(n_splits)
            /\ result.fit_X = FitsOf(evals[i].n)[n_splits].X
            /\ result.fit_X # sequences
            /\ \A f \in 1..(n_splits - 1) : result.fit_X # TrainOf(f)

C10_Witness ==
    /\ Returned /\ strategy = "CV"
    /\ Len(sequences) = 4
    /\ Len(evals) = 3
    /\ Scored = {1, 2, 3}
    /\ result.n_components = 2
    /\ result.fit_X = <<1, 2, 3>>
====
